---- MODULE Spec2Model ----
(***************************************************************************)
(* acsi2stm: the ACSI <-> SD card bridge of src/acsi2stm.ino as a state    *)
(* machine.  One sequential program (setup() once, then loop() forever)    *)
(* talking to two environments: the Atari side of the ACSI bus (samples of *)
(* port B, DMA bytes) and the SD card library (card.init, card.cardSize,   *)
(* card.readBlock, card.writeBlock).  pc is the program's position.        *)
(***************************************************************************)
EXTENDS Integers, Sequences, FiniteSets, TLC

(* ------------------------------------------------------------------ *)
(* Program constants                                                   *)
(* ------------------------------------------------------------------ *)
CS_MASK == 128
A1_MASK == 64
ACSI_ID == 0
MAXTRIES_SD == 5
BLOCKSIZE == 512
InitialSdBlocks == 4000 * 2048

inquiry_data ==
  << 0, 0, 1, 0, 31, 0, 0, 0,
     82, 101, 116, 114, 111, 49, 54, 32,
     65, 67, 83, 73, 50, 83, 84, 77,
     32, 83, 68, 32, 99, 97, 114, 100,
     118, 49, 46, 48 >>

(* ------------------------------------------------------------------ *)
(* Bounds of the model and the inputs of the two environments          *)
(* ------------------------------------------------------------------ *)
MaxCmds  == 1     \* commands the host addresses to this device in one run
MaxStart == 2     \* low byte of the block address in read/write frames
MaxCount == 2     \* block count in in-range read/write frames

\* what card.cardSize() may report after a successful card.init()
CardSizes == {MaxStart + 1, 8192000}
\* every byte of block idx as the card delivers it
CardByte(idx) == (195 + idx) % 256
\* every byte of a block the host sends by DMA
HostData == {90, 165}
\* length fields of Inquiry and Request Sense frames
LenVals == {0, 2, 31, 40, 255}

NoOpCodes  == {11, 13, 21, 27}
InitCodes  == {0, 4, 5, 6}
KnownCodes == NoOpCodes \cup InitCodes \cup {3, 8, 10, 18, 26}
\* opcodes the host puts in the low five bits of the first byte
OpCodes    == KnownCodes \cup {1, 31}

\* one read of GPIOB->IDR: data pins on bits 8..15, CS on bit 7, A1 on bit 6
Sample(data, cs, a1) == data * 256 + cs * CS_MASK + a1 * A1_MASK

\* what the poll of waitCommand may see: a quiet bus (CS or A1 high) or the
\* first byte of a frame (CS and A1 low) for any of the eight device IDs
PollSamples ==
  { Sample(0, 1, 0), Sample(0, 0, 1), Sample(255, 1, 1) }
  \cup { Sample(ACSI_ID * 32 + op, 0, 0) : op \in OpCodes }
  \cup { Sample(id * 32 + 8, 0, 0) : id \in 0..7 }

\* the bytes the host may send as byte k of a frame whose first bytes are cb
HostBytes(k, cb) ==
  LET op == cb[0] IN
  IF op \in {8, 10} THEN
    CASE k = 1 -> {0, 255}
      [] k = 2 -> IF cb[1] = 255 THEN {255} ELSE {0, 1}
      [] k = 3 -> IF cb[1] = 255 THEN {255}
                  ELSE IF cb[2] = 1 THEN {0} ELSE 0..MaxStart
      [] k = 4 -> IF cb[1] = 255 THEN {255}
                  ELSE IF cb[2] = 1 THEN {1} ELSE 0..MaxCount
      [] OTHER -> {0}
  ELSE IF op \in {3, 18} THEN
    CASE k = 4 -> LenVals
      [] OTHER -> {0}
  ELSE IF op = 26 THEN
    CASE k = 2 -> {0, 1, 4, 63}
      [] k = 4 -> {24}
      [] OTHER -> {0}
  ELSE IF cb[1] = 255 THEN {255}
  ELSE IF k = 1 THEN {0, 255}
  ELSE {0}

(* ------------------------------------------------------------------ *)
(* State                                                               *)
(* ------------------------------------------------------------------ *)
VARIABLES
  pc,          \* position of the program
  cmdBuf,      \* uint8_t cmdBuf[6]
  dataBuf,     \* uint8_t dataBuf[BLOCKSIZE]
  sdBlocks,    \* uint32_t sdBlocks
  sdReady,     \* bool sdReady
  b, i,        \* locals of waitCommand
  block, blocks,   \* locals of the read/write cases of loop
  tries,       \* local of readBlock / writeBlock
  blkResult,   \* value returned by readBlock / writeBlock
  dmaDir, dmaCount,  \* the running sendDma / readDma call and its count
  statusByte,  \* argument of the running sendStatus
  led,         \* activity LED driven (ledOn / ledOff)
  intr,        \* interrupt delivery enabled (interrupts / noInterrupts)
  wdFed,       \* watchdog fed since the last card block operation
  cmds,        \* commands the host has addressed to this device
  h            \* what happened in the current command (history)

sdVars  == <<sdBlocks, sdReady>>
rxVars  == <<b, i>>
rwVars  == <<block, blocks, tries, blkResult>>
dmaVars == <<dmaDir, dmaCount>>
vars == <<pc, cmdBuf, dataBuf, sdVars, rxVars, rwVars, dmaVars, statusByte,
          led, intr, wdFed, cmds, h>>

BufIdx == 0 .. (BLOCKSIZE - 1)

\* the history of one command, cleared when loop() is entered
NoHistory ==
  [ frames |-> 0,       \* frames handed to the dispatcher
    nStatus |-> 0,      \* calls of sendStatus
    status |-> -1,      \* the code of the last sendStatus
    rxId |-> -1,        \* device ID bits of the accepted first byte
    readyAtArrival |-> FALSE,  \* sdReady when the frame was handed over
    preInit |-> FALSE,  \* sdInit called by the not-ready check
    preInitOk |-> FALSE,
    nInit |-> 0,        \* sdInit calls of the switch (init class, sense)
    initOk |-> FALSE,   \* result of the last of them
    capChecked |-> -1,  \* sdBlocks when the switch was entered
    nBlk |-> 0,         \* calls of readBlock / writeBlock
    lastIdx |-> -1,     \* block index of the last card block operation
    nOps |-> 0,         \* card block operations in the current readBlock/writeBlock
    opOk |-> FALSE,     \* one of them succeeded
    lastOpOk |-> FALSE, \* the last of them succeeded
    nReinit |-> 0,      \* sdInit calls in the current readBlock/writeBlock
    reinitFailed |-> FALSE,
    nSend |-> 0,        \* completed sendDma calls
    nRecv |-> 0,        \* completed readDma calls
    lastDma |-> 0,      \* count of the last DMA call
    sendAfterBlk |-> TRUE, \* every sendDma(512) directly followed a readBlock
    blkAfterRecv |-> TRUE, \* every writeBlock directly followed a readDma(512)
    last |-> "none",    \* last call: "blk", "send", "recv" or "none"
    allOk |-> TRUE,     \* every card call of this command succeeded
    wire |-> << >>,     \* bytes of the last sendDma, in order
    rx |-> << >>,       \* bytes the host sent in the last readDma, in order
    wrote |-> << >> ]   \* block passed to the last card.writeBlock

(* ------------------------------------------------------------------ *)
(* Integer helpers of the C code                                       *)
(* ------------------------------------------------------------------ *)
\* x >> n for a non-negative x
Shr(x, n) == x \div (2 ^ n)
\* the low byte, as an assignment to a uint8_t keeps it
U8(x) == x % 256

\* variant: one bit too far, the low ID bit is lost
DeviceIdOfShift14(s) == Shr(s, 14)
\* the device ID bits of a port sample: b >> (8+5)
DeviceIdOf(s) == Shr(s, 8 + 5)
\* the poll condition b & (A1_MASK | CS_MASK)
Quiet(s) == (s \div A1_MASK) % 4 # 0
\* b & CS_MASK
CsHigh(s) == (s \div CS_MASK) % 2 # 0

\* (cmdBuf[1] << 16) | (cmdBuf[2] << 8) | cmdBuf[3]
BlockOf(cb) == cb[1] * 65536 + cb[2] * 256 + cb[3]

\* x >= y where x is an int and y a uint32_t: x is converted to unsigned, so a
\* negative x becomes 2^32 + x, which is above every y < 2^31 (all capacities
\* of CardSizes and InitialSdBlocks are below 2^31).
UnsignedGE(x, y) == IF x < 0 THEN TRUE ELSE x >= y

\* variant: > for >=, the last block past the end is accepted
OutOfRangeOffByOne(blk, cnt, cap) == blk + cnt - 1 > cap
\* the range check of the read and write cases: block + cmdBuf[4] - 1 >= sdBlocks
OutOfRange(blk, cnt, cap) == UnsignedGE(blk + cnt - 1, cap)

\* variant: < for <=
NeedReinitStrict(t) == t < MAXTRIES_SD \div 2
\* the retry loops reinitialize the card when tries <= MAXTRIES_SD / 2
NeedReinit(t) == t <= MAXTRIES_SD \div 2

\* variant: the block number is not advanced
NextBlockStuck(blk) == blk
\* block++ of the read/write loops
NextBlock(blk) == blk + 1

(* ------------------------------------------------------------------ *)
(* What the dispatcher writes into dataBuf                             *)
(* ------------------------------------------------------------------ *)
Fill(v) == [j \in BufIdx |-> v]

\* variant: the four revision bytes at the end of the record are left out
InquiryFillNoRevision(buf, len) ==
  [j \in BufIdx |->
     IF j < len
       THEN IF j < Len(inquiry_data) - 4 THEN inquiry_data[j + 1] ELSE 0
       ELSE buf[j]]
\* for(b = 0; b < len; ++b) dataBuf[b] = b < sizeof(inquiry_data) ? inquiry_data[b] : 0
InquiryFill(buf, len) ==
  [j \in BufIdx |->
     IF j < len
       THEN IF j < Len(inquiry_data) THEN inquiry_data[j + 1] ELSE 0
       ELSE buf[j]]

\* Request Sense: 0x80, the capacity in three bytes, zeros from 4 to len-1
SenseFill(buf, cap, len) ==
  [j \in BufIdx |->
     CASE j = 0 -> 128
       [] j = 1 -> U8(Shr(cap, 16))
       [] j = 2 -> U8(Shr(cap, 8))
       [] j = 3 -> U8(cap)
       [] j >= 4 /\ j < len -> 0
       [] OTHER -> buf[j]]

\* for(b = 0; b < n; ++b) dataBuf[b] = 0
ZeroPrefix(buf, n) == [j \in BufIdx |-> IF j < n THEN 0 ELSE buf[j]]

\* Mode sense page 0: zero 16 bytes, then the constants and the capacity
ModeSense0Fill(buf, cap) ==
  [ZeroPrefix(buf, 16) EXCEPT ![1] = 14, ![3] = 8,
                              ![5] = U8(Shr(cap, 16)),
                              ![6] = U8(Shr(cap, 8)),
                              ![7] = U8(cap),
                              ![10] = 2]

\* Mode sense page 4: the page markers, the capacity in CHS form and the
\* head count are stored first, then the loop zeroes bytes 0..23
ModeSense4Fill(buf, cap) ==
  ZeroPrefix([buf EXCEPT ![0] = 4, ![1] = 22,
                         ![2] = U8(Shr(cap, 23)),
                         ![3] = U8(Shr(cap, 15)),
                         ![4] = U8(Shr(cap, 7)),
                         ![5] = 128], 24)

\* the first n bytes of a buffer, as sendDma puts them on the bus
Prefix(buf, n) == [j \in 1..n |-> buf[j - 1]]

(* ------------------------------------------------------------------ *)
(* History bookkeeping                                                 *)
(* ------------------------------------------------------------------ *)
LogStatus(hh, code) == [hh EXCEPT !.nStatus = @ + 1, !.status = code]
LogPreInit(hh, ok) ==
  [hh EXCEPT !.preInit = TRUE, !.preInitOk = ok, !.allOk = @ /\ ok]
LogInit(hh, ok) ==
  [hh EXCEPT !.nInit = @ + 1, !.initOk = ok, !.allOk = @ /\ ok]
LogBlkCall(hh) ==
  [hh EXCEPT !.nBlk = @ + 1, !.nOps = 0, !.opOk = FALSE, !.lastOpOk = FALSE,
             !.nReinit = 0, !.reinitFailed = FALSE,
             !.blkAfterRecv = @ /\ hh.last = "recv", !.last = "blk"]
LogOp(hh, idx, ok) ==
  [hh EXCEPT !.nOps = @ + 1, !.opOk = @ \/ ok, !.lastOpOk = ok,
             !.lastIdx = idx, !.allOk = @ /\ ok]
LogWrite(hh, buf) == [hh EXCEPT !.wrote = Prefix(buf, BLOCKSIZE)]
LogReinit(hh, ok) ==
  [hh EXCEPT !.nReinit = @ + 1, !.reinitFailed = ~ok, !.allOk = @ /\ ok]

(* ------------------------------------------------------------------ *)
(* Init: the state setup() leaves                                      *)
(* ------------------------------------------------------------------ *)
Init ==
  /\ pc = "loop"
  /\ cmdBuf = [k \in 0..5 |-> 0]
  /\ dataBuf = Fill(0)
  /\ \E ok \in BOOLEAN, size \in CardSizes :
       /\ sdReady = ok
       /\ sdBlocks = IF ok THEN size ELSE InitialSdBlocks
  /\ b = 0 /\ i = 0
  /\ block = 0 /\ blocks = 0 /\ tries = 0 /\ blkResult = FALSE
  /\ dmaDir = "none" /\ dmaCount = 0
  /\ statusByte = 0
  /\ led = FALSE
  /\ intr = TRUE
  /\ wdFed = TRUE
  /\ cmds = 0
  /\ h = NoHistory

(* ------------------------------------------------------------------ *)
(* Calls shared by the dispatcher's paths                              *)
(* ------------------------------------------------------------------ *)
\* sendStatus(s) up to its wait for CS: ledOff, noInterrupts, drive the byte,
\* pull IRQ; hh is the history of the command up to the call
sendStatus(code, hh) ==
  /\ led' = FALSE
  /\ intr' = FALSE
  /\ statusByte' = code
  /\ pc' = "sendStatus"
  /\ h' = LogStatus(hh, code)

commandSuccess(hh) == sendStatus(0, hh)

\* variant: the error path returns from loop() without the status handshake
commandErrorReturns(hh) ==
  /\ pc' = "loop"
  /\ h' = hh
  /\ UNCHANGED <<led, intr, statusByte>>
commandError(hh) == sendStatus(2, hh)

\* variant: a failed card.init leaves sdReady as it was
sdInitKeepsReady(ok, size) ==
  /\ sdReady' = (sdReady \/ ok)
  /\ sdBlocks' = IF ok THEN size ELSE sdBlocks
\* sdInit(): sdReady = card.init(); sdBlocks = card.cardSize() when it succeeded
sdInit(ok, size) ==
  /\ sdReady' = ok
  /\ sdBlocks' = IF ok THEN size ELSE sdBlocks

\* variant: sendDma without noInterrupts()
sendDmaNoSuspend(count) ==
  /\ UNCHANGED intr
  /\ dmaDir' = "send"
  /\ dmaCount' = count
  /\ pc' = "dma"
\* sendDma(count) / readDma(count) up to the byte loop: noInterrupts, acquire
sendDma(count) ==
  /\ intr' = FALSE
  /\ dmaDir' = "send"
  /\ dmaCount' = count
  /\ pc' = "dma"

readDma(count) ==
  /\ intr' = FALSE
  /\ dmaDir' = "recv"
  /\ dmaCount' = count
  /\ pc' = "dma"

(* ------------------------------------------------------------------ *)
(* waitCommand                                                         *)
(* ------------------------------------------------------------------ *)
\* loop() is entered and calls waitCommand: noInterrupts
WaitCommandEnter ==
  /\ pc = "loop"
  /\ intr' = FALSE
  /\ pc' = "waitCommand"
  /\ h' = NoHistory
  /\ UNCHANGED <<cmdBuf, dataBuf, sdVars, rxVars, rwVars, dmaVars, statusByte,
                 led, wdFed, cmds>>

\* the inner while: CS or A1 high, feed the watchdog and sample again
PollQuiet ==
  /\ pc = "waitCommand"
  /\ \E s \in PollSamples :
       /\ Quiet(s)
       /\ b' = s
  /\ wdFed' = TRUE
  /\ UNCHANGED <<pc, cmdBuf, dataBuf, sdVars, i, rwVars, dmaVars, statusByte,
                 led, intr, cmds, h>>

\* a first byte for another device: the do-while goes round again
PollOtherId ==
  /\ pc = "waitCommand"
  /\ \E s \in PollSamples :
       /\ ~Quiet(s)
       /\ DeviceIdOf(s) # ACSI_ID
       /\ b' = s
  /\ UNCHANGED <<pc, cmdBuf, dataBuf, sdVars, i, rwVars, dmaVars, statusByte,
                 led, intr, wdFed, cmds, h>>

\* a first byte for this device: LED on, opcode stored, first pullIrq
PollMatch ==
  /\ pc = "waitCommand"
  /\ cmds < MaxCmds
  /\ \E s \in PollSamples :
       /\ ~Quiet(s)
       /\ DeviceIdOf(s) = ACSI_ID
       /\ b' = s
       /\ cmdBuf' = [cmdBuf EXCEPT ![0] = Shr(s, 8) % 32]
       /\ h' = [h EXCEPT !.rxId = Shr(s, 13)]
  /\ led' = TRUE
  /\ i' = 1
  /\ cmds' = cmds + 1
  /\ pc' = "recvBytes"
  /\ UNCHANGED <<dataBuf, sdVars, rwVars, dmaVars, statusByte, intr, wdFed>>

\* while((b = IDR) & CS_MASK): CS still high
RecvSpin ==
  /\ pc = "recvBytes"
  /\ \E d \in {0, 255} :
       /\ CsHigh(Sample(d, 1, 1))
       /\ b' = Sample(d, 1, 1)
  /\ UNCHANGED <<pc, cmdBuf, dataBuf, sdVars, i, rwVars, dmaVars, statusByte,
                 led, intr, wdFed, cmds, h>>

\* CS low: releaseRq, cmdBuf[i] = b >> 8; after the sixth byte interrupts()
\* and waitCommand returns
RecvByte ==
  /\ pc = "recvBytes"
  /\ \E d \in HostBytes(i, cmdBuf) :
       LET s == Sample(d, 0, 1) IN
       /\ ~CsHigh(s)
       /\ cmdBuf' = [cmdBuf EXCEPT ![i] = U8(Shr(s, 8))]
       /\ b' = IF i + 1 < 6 THEN s ELSE 0
  /\ IF i + 1 < 6
       THEN /\ i' = i + 1
            /\ UNCHANGED <<pc, intr, h>>
       ELSE /\ i' = 0
            /\ intr' = TRUE
            /\ pc' = "checkReady"
            /\ h' = [h EXCEPT !.frames = @ + 1, !.readyAtArrival = sdReady]
  /\ UNCHANGED <<dataBuf, sdVars, rwVars, dmaVars, statusByte, led, wdFed, cmds>>

(* ------------------------------------------------------------------ *)
(* sendStatus, sendDma, readDma: the handshake and the return          *)
(* ------------------------------------------------------------------ *)
\* variant: sendStatus does not return when CS goes low: it stays in its wait
StatusDoneStays ==
  /\ pc = "sendStatus"
  /\ intr' = TRUE
  /\ pc' = "sendStatus"
  /\ block' = 0 /\ blocks' = 0 /\ tries' = 0 /\ blkResult' = FALSE
  /\ dmaDir' = "none" /\ dmaCount' = 0
  /\ UNCHANGED <<cmdBuf, dataBuf, sdVars, rxVars, statusByte, led, wdFed, cmds, h>>

\* while(getCs()) ends: releaseBus, interrupts; loop() returns
StatusDone ==
  /\ pc = "sendStatus"
  /\ intr' = TRUE
  /\ pc' = "loop"
  /\ block' = 0 /\ blocks' = 0 /\ tries' = 0 /\ blkResult' = FALSE
  /\ dmaDir' = "none" /\ dmaCount' = 0
  /\ UNCHANGED <<cmdBuf, dataBuf, sdVars, rxVars, statusByte, led, wdFed, cmds, h>>

\* the byte loop of sendDma / readDma, every pulse acknowledged; then the
\* bus is released and interrupts are enabled again
DmaXfer ==
  /\ pc = "dma"
  /\ IF dmaDir = "send"
       THEN /\ h' = [h EXCEPT !.nSend = @ + 1, !.lastDma = dmaCount,
                              !.wire = Prefix(dataBuf, dmaCount),
                              !.sendAfterBlk =
                                 @ /\ (dmaCount = BLOCKSIZE => h.last = "blk"),
                              !.last = "send"]
            /\ UNCHANGED dataBuf
       ELSE \E v \in HostData :
              /\ dataBuf' = [j \in BufIdx |-> IF j < dmaCount THEN v ELSE dataBuf[j]]
              /\ h' = [h EXCEPT !.nRecv = @ + 1, !.lastDma = dmaCount,
                                !.last = "recv",
                                !.rx = [j \in 1..dmaCount |-> v]]
  /\ intr' = TRUE
  /\ pc' = "dmaReturn"
  /\ UNCHANGED <<cmdBuf, sdVars, rxVars, rwVars, dmaVars, statusByte, led,
                 wdFed, cmds>>

(* ------------------------------------------------------------------ *)
(* loop(): the dispatcher                                              *)
(* ------------------------------------------------------------------ *)
\* variant: a failed sdInit of the not-ready check is ignored and the command
\* is dispatched all the same
CheckReadyFallsThrough ==
  /\ pc = "checkReady"
  /\ IF sdReady
       THEN /\ h' = [h EXCEPT !.capChecked = sdBlocks]
            /\ UNCHANGED sdVars
       ELSE \E ok \in BOOLEAN, size \in CardSizes :
              /\ sdInit(ok, size)
              /\ h' = [LogPreInit(h, ok) EXCEPT !.capChecked = sdBlocks']
  /\ pc' = "switch"
  /\ UNCHANGED <<cmdBuf, dataBuf, rxVars, rwVars, dmaVars, statusByte, led,
                 intr, wdFed, cmds>>

\* if(!sdReady) { if(!sdInit()) { commandError(); return; } }
CheckReady ==
  /\ pc = "checkReady"
  /\ IF sdReady
       THEN /\ pc' = "switch"
            /\ h' = [h EXCEPT !.capChecked = sdBlocks]
            /\ UNCHANGED <<sdVars, statusByte, led, intr>>
       ELSE \E ok \in BOOLEAN, size \in CardSizes :
              /\ sdInit(ok, size)
              /\ IF ok
                   THEN /\ pc' = "switch"
                        /\ h' = [LogPreInit(h, ok) EXCEPT !.capChecked = size]
                        /\ UNCHANGED <<statusByte, led, intr>>
                   ELSE /\ commandError(LogPreInit(h, ok))
  /\ UNCHANGED <<cmdBuf, dataBuf, rxVars, rwVars, dmaVars, wdFed, cmds>>

\* default: unknown command
CmdUnknown ==
  /\ pc = "switch"
  /\ cmdBuf[0] \notin KnownCodes
  /\ commandError(h)
  /\ UNCHANGED <<cmdBuf, dataBuf, sdVars, rxVars, rwVars, dmaVars, wdFed, cmds>>

\* variant: the no-op class reinitializes the card as the init class does
CmdNoOpReinit ==
  /\ pc = "switch"
  /\ cmdBuf[0] \in NoOpCodes
  /\ \E ok \in BOOLEAN, size \in CardSizes :
       /\ sdInit(ok, size)
       /\ commandSuccess(LogInit(h, ok))
  /\ UNCHANGED <<cmdBuf, dataBuf, rxVars, rwVars, dmaVars, wdFed, cmds>>

\* Seek, Correction, Mode select, Ship: always succeed
CmdNoOp ==
  /\ pc = "switch"
  /\ cmdBuf[0] \in NoOpCodes
  /\ commandSuccess(h)
  /\ UNCHANGED <<cmdBuf, dataBuf, sdVars, rxVars, rwVars, dmaVars, wdFed, cmds>>

\* variant: the init class reports success whatever sdInit returned
CmdInitIgnoresResult ==
  /\ pc = "switch"
  /\ cmdBuf[0] \in InitCodes
  /\ \E ok \in BOOLEAN, size \in CardSizes :
       /\ sdInit(ok, size)
       /\ commandSuccess(LogInit(h, ok))
  /\ UNCHANGED <<cmdBuf, dataBuf, rxVars, rwVars, dmaVars, wdFed, cmds>>

\* Test drive ready, Format drive, Verify track, Format track: sdInit decides
CmdInit ==
  /\ pc = "switch"
  /\ cmdBuf[0] \in InitCodes
  /\ \E ok \in BOOLEAN, size \in CardSizes :
       /\ sdInit(ok, size)
       /\ IF ok THEN commandSuccess(LogInit(h, ok))
                ELSE commandError(LogInit(h, ok))
  /\ UNCHANGED <<cmdBuf, dataBuf, rxVars, rwVars, dmaVars, wdFed, cmds>>

\* Request Sense: sdInit, then the response is built and sent
CmdRequestSense ==
  /\ pc = "switch"
  /\ cmdBuf[0] = 3
  /\ \E ok \in BOOLEAN, size \in CardSizes :
       /\ sdInit(ok, size)
       /\ IF ok
            THEN /\ dataBuf' = SenseFill(dataBuf, size, cmdBuf[4])
                 /\ sendDma(cmdBuf[4])
                 /\ h' = LogInit(h, ok)
                 /\ UNCHANGED <<statusByte, led>>
            ELSE /\ commandError(LogInit(h, ok))
                 /\ UNCHANGED <<dataBuf, dmaVars>>
  /\ UNCHANGED <<cmdBuf, rxVars, rwVars, wdFed, cmds>>

\* Read block / Write block: the block number and the range check
CmdReadWrite ==
  /\ pc = "switch"
  /\ cmdBuf[0] \in {8, 10}
  /\ IF OutOfRange(BlockOf(cmdBuf), cmdBuf[4], sdBlocks)
       THEN /\ commandError(h)
            /\ UNCHANGED rwVars
       ELSE /\ block' = BlockOf(cmdBuf)
            /\ blocks' = cmdBuf[4]
            /\ pc' = "forBlocks"
            /\ UNCHANGED <<tries, blkResult, statusByte, led, intr, h>>
  /\ UNCHANGED <<cmdBuf, dataBuf, sdVars, rxVars, dmaVars, wdFed, cmds>>

\* variant: the loop body does not feed the watchdog
ForBlocksNoFeed ==
  /\ pc = "forBlocks"
  /\ blocks' = blocks - 1
  /\ IF blocks = 0
       THEN /\ commandSuccess(h)
            /\ UNCHANGED <<tries, dmaVars>>
       ELSE /\ IF cmdBuf[0] = 8
                 THEN /\ tries' = MAXTRIES_SD
                      /\ pc' = "cardOp"
                      /\ h' = LogBlkCall(h)
                      /\ UNCHANGED <<dmaVars, intr>>
                 ELSE /\ readDma(BLOCKSIZE)
                      /\ UNCHANGED <<tries, h>>
            /\ UNCHANGED <<statusByte, led>>
  /\ UNCHANGED <<cmdBuf, dataBuf, sdVars, rxVars, block, blkResult, wdFed, cmds>>

\* for(blocks = cmdBuf[4]; blocks--; block++): the test, the watchdog, and
\* the call of readBlock (read) or readDma (write)
ForBlocks ==
  /\ pc = "forBlocks"
  /\ blocks' = blocks - 1
  /\ IF blocks = 0
       THEN /\ commandSuccess(h)
            /\ UNCHANGED <<tries, dmaVars, wdFed>>
       ELSE /\ wdFed' = TRUE
            /\ IF cmdBuf[0] = 8
                 THEN /\ tries' = MAXTRIES_SD
                      /\ pc' = "cardOp"
                      /\ h' = LogBlkCall(h)
                      /\ UNCHANGED <<dmaVars, intr>>
                 ELSE /\ readDma(BLOCKSIZE)
                      /\ UNCHANGED <<tries, h>>
            /\ UNCHANGED <<statusByte, led>>
  /\ UNCHANGED <<cmdBuf, dataBuf, sdVars, rxVars, block, blkResult, cmds>>

(* ------------------------------------------------------------------ *)
(* readBlock / writeBlock: the retry loop                              *)
(* ------------------------------------------------------------------ *)
\* return tries > 0
RetryResult(t) == t > 0

\* the loop condition: !card.readBlock(block, dataBuf) && tries-- > 0, and for
\* a failed operation with tries left the delay, the watchdog and the test
\* for the reinitialization
CardOp ==
  /\ pc = "cardOp"
  /\ \E ok \in BOOLEAN :
       /\ IF cmdBuf[0] = 8
            THEN /\ dataBuf' = IF ok THEN Fill(CardByte(block)) ELSE dataBuf
                 /\ h' = LogOp(h, block, ok)
            ELSE /\ UNCHANGED dataBuf
                 /\ h' = LogWrite(LogOp(h, block, ok), dataBuf)
       /\ IF ok
            THEN /\ blkResult' = RetryResult(tries)
                 /\ pc' = "blockReturn"
                 /\ wdFed' = FALSE
                 /\ UNCHANGED tries
            ELSE /\ tries' = tries - 1
                 /\ IF tries > 0
                      THEN /\ wdFed' = TRUE
                           /\ pc' = IF NeedReinit(tries - 1) THEN "reinit" ELSE "cardOp"
                           /\ UNCHANGED blkResult
                      ELSE /\ blkResult' = RetryResult(tries - 1)
                           /\ pc' = "blockReturn"
                           /\ wdFed' = FALSE
  /\ UNCHANGED <<cmdBuf, sdVars, rxVars, block, blocks, dmaVars, statusByte,
                 led, intr, cmds>>

\* variant: the reinitialization uses dataBuf as its scratch buffer
ReinitClobbers ==
  /\ pc = "reinit"
  /\ dataBuf' = Fill(0)
  /\ \E ok \in BOOLEAN, size \in CardSizes :
       /\ sdInit(ok, size)
       /\ h' = LogReinit(h, ok)
       /\ IF ok
            THEN /\ pc' = "cardOp"
                 /\ UNCHANGED blkResult
            ELSE /\ blkResult' = FALSE
                 /\ pc' = "blockReturn"
  /\ UNCHANGED <<cmdBuf, rxVars, block, blocks, tries, dmaVars,
                 statusByte, led, intr, wdFed, cmds>>

\* if(tries <= MAXTRIES_SD / 2 && !sdInit()) return false;
Reinit ==
  /\ pc = "reinit"
  /\ \E ok \in BOOLEAN, size \in CardSizes :
       /\ sdInit(ok, size)
       /\ h' = LogReinit(h, ok)
       /\ IF ok
            THEN /\ pc' = "cardOp"
                 /\ UNCHANGED blkResult
            ELSE /\ blkResult' = FALSE
                 /\ pc' = "blockReturn"
  /\ UNCHANGED <<cmdBuf, dataBuf, rxVars, block, blocks, tries, dmaVars,
                 statusByte, led, intr, wdFed, cmds>>

\* variant: the result of readBlock / writeBlock is not looked at
BlockReturnIgnoresFailure ==
  /\ pc = "blockReturn"
  /\ tries' = 0
  /\ IF cmdBuf[0] = 8
       THEN /\ sendDma(BLOCKSIZE)
            /\ UNCHANGED <<block, statusByte, led, h>>
       ELSE /\ block' = NextBlock(block)
            /\ pc' = "forBlocks"
            /\ UNCHANGED <<dmaVars, statusByte, led, intr, h>>
  /\ UNCHANGED <<cmdBuf, dataBuf, sdVars, rxVars, blocks, blkResult, wdFed, cmds>>

\* back in the loop body: error on failure, else sendDma (read) or the next
\* block (write)
BlockReturn ==
  /\ pc = "blockReturn"
  /\ tries' = 0
  /\ IF ~blkResult
       THEN /\ commandError(h)
            /\ UNCHANGED <<block, dmaVars>>
       ELSE IF cmdBuf[0] = 8
         THEN /\ sendDma(BLOCKSIZE)
              /\ UNCHANGED <<block, statusByte, led, h>>
         ELSE /\ block' = NextBlock(block)
              /\ pc' = "forBlocks"
              /\ UNCHANGED <<dmaVars, statusByte, led, intr, h>>
  /\ UNCHANGED <<cmdBuf, dataBuf, sdVars, rxVars, blocks, blkResult, wdFed, cmds>>

\* sendDma / readDma has returned to the case that called it
DmaReturn ==
  /\ pc = "dmaReturn"
  /\ dmaDir' = "none" /\ dmaCount' = 0
  /\ IF cmdBuf[0] = 8
       THEN /\ block' = NextBlock(block)
            /\ pc' = "forBlocks"
            /\ UNCHANGED <<tries, statusByte, led, intr, h>>
       ELSE IF cmdBuf[0] = 10
         THEN /\ tries' = MAXTRIES_SD
              /\ pc' = "cardOp"
              /\ h' = LogBlkCall(h)
              /\ UNCHANGED <<block, statusByte, led, intr>>
         ELSE /\ commandSuccess(h)
              /\ UNCHANGED <<block, tries>>
  /\ UNCHANGED <<cmdBuf, dataBuf, sdVars, rxVars, blocks, blkResult, wdFed, cmds>>

(* ------------------------------------------------------------------ *)
(* Inquiry and Mode sense                                              *)
(* ------------------------------------------------------------------ *)
CmdInquiry ==
  /\ pc = "switch"
  /\ cmdBuf[0] = 18
  /\ dataBuf' = InquiryFill(dataBuf, cmdBuf[4])
  /\ sendDma(cmdBuf[4])
  /\ UNCHANGED <<cmdBuf, sdVars, rxVars, rwVars, statusByte, led, wdFed, cmds, h>>

\* variant: the inner switch has a default that reports an error
CmdModeSenseDefaultError ==
  /\ pc = "switch"
  /\ cmdBuf[0] = 26
  /\ CASE cmdBuf[2] = 0 ->
            /\ dataBuf' = ModeSense0Fill(dataBuf, sdBlocks)
            /\ sendDma(16)
            /\ UNCHANGED <<statusByte, led, h>>
       [] cmdBuf[2] = 4 ->
            /\ dataBuf' = ModeSense4Fill(dataBuf, sdBlocks)
            /\ sendDma(24)
            /\ UNCHANGED <<statusByte, led, h>>
       [] OTHER ->
            /\ commandError(h)
            /\ UNCHANGED <<dataBuf, dmaVars>>
  /\ UNCHANGED <<cmdBuf, sdVars, rxVars, rwVars, wdFed, cmds>>

\* the inner switch has no default: any other sub-page goes straight to
\* commandSuccess
CmdModeSense ==
  /\ pc = "switch"
  /\ cmdBuf[0] = 26
  /\ CASE cmdBuf[2] = 0 ->
            /\ dataBuf' = ModeSense0Fill(dataBuf, sdBlocks)
            /\ sendDma(16)
            /\ UNCHANGED <<statusByte, led, h>>
       [] cmdBuf[2] = 4 ->
            /\ dataBuf' = ModeSense4Fill(dataBuf, sdBlocks)
            /\ sendDma(24)
            /\ UNCHANGED <<statusByte, led, h>>
       [] OTHER ->
            /\ commandSuccess(h)
            /\ UNCHANGED <<dataBuf, dmaVars>>
  /\ UNCHANGED <<cmdBuf, sdVars, rxVars, rwVars, wdFed, cmds>>

(* ------------------------------------------------------------------ *)
(* The specification                                                   *)
(* ------------------------------------------------------------------ *)
Next ==
  \/ WaitCommandEnter \/ PollQuiet \/ PollOtherId \/ PollMatch
  \/ RecvSpin \/ RecvByte
  \/ CheckReady
  \/ CmdUnknown \/ CmdNoOp \/ CmdInit \/ CmdRequestSense \/ CmdReadWrite
  \/ CmdInquiry \/ CmdModeSense
  \/ ForBlocks \/ CardOp \/ Reinit \/ BlockReturn
  \/ DmaXfer \/ DmaReturn
  \/ StatusDone

Spec == Init /\ [][Next]_vars

\* The steps the program takes by itself: the processor keeps running, every
\* call of the card library returns, and loop() is called again when it returns
DispatcherStep ==
  \/ WaitCommandEnter \/ CheckReady
  \/ CmdUnknown \/ CmdNoOp \/ CmdInit \/ CmdRequestSense \/ CmdReadWrite
  \/ CmdInquiry \/ CmdModeSense
  \/ ForBlocks \/ CardOp \/ Reinit \/ BlockReturn \/ DmaReturn

\* Spec with the host completing every handshake the program waits on: CS
\* for each command byte (RecvByte), ACK after each DMA pulse (DmaXfer), CS
\* for the status byte (StatusDone). The waits themselves, while(!getAck())
\* and while(getCs()), change no variable: they are the stuttering steps.
FairSpec ==
  /\ Init /\ [][Next]_vars
  /\ WF_vars(DispatcherStep)
  /\ WF_vars(RecvByte)
  /\ WF_vars(DmaXfer)
  /\ WF_vars(StatusDone)

(* ------------------------------------------------------------------ *)
(* Properties                                                          *)
(* ------------------------------------------------------------------ *)
InDispatch ==
  pc \in {"checkReady", "switch", "forBlocks", "cardOp", "reinit",
          "blockReturn", "dma", "dmaReturn"}
\* the command's status has been decided (sendStatus called, or loop returned)
Ended == pc \in {"sendStatus", "loop"} /\ h.frames = 1
Op == cmdBuf[0]
Start == BlockOf(cmdBuf)
Count == cmdBuf[4]
\* the capacity the range check compared with
Capacity == IF h.capChecked >= 0 THEN h.capChecked ELSE sdBlocks
NoBlockCalls == h.nBlk = 0 /\ h.nOps = 0 /\ h.nReinit = 0
NoDma == h.nSend = 0 /\ h.nRecv = 0 /\ pc \notin {"dma", "dmaReturn"}

\* C1: every frame handed to the dispatcher gets exactly one sendStatus before
\* loop() returns to wait for the next frame: none while the command is being
\* dispatched, one from the call of sendStatus on, never one without a frame.
StatusExactlyOnce ==
  /\ h.nStatus <= h.frames
  /\ h.frames <= 1
  /\ (pc \in {"waitCommand", "recvBytes"} => h.frames = 0 /\ h.nStatus = 0)
  /\ (InDispatch => h.frames = 1 /\ h.nStatus = 0)
  /\ (pc = "sendStatus" => h.frames = 1 /\ h.nStatus = 1)
  /\ (pc = "loop" => h.nStatus = h.frames)
  /\ (h.nStatus = 1 => h.status = statusByte /\ statusByte \in {0, 2})

\* a read whose second block failed for good has ended with its one status
StatusExactlyOnceWitness ==
  /\ pc = "loop" /\ h.frames = 1 /\ h.nStatus = 1
  /\ Op = 8 /\ h.nBlk = 2 /\ h.status = 2

\* C2 as stated: a no-op opcode (Seek, Correction, Mode select, Ship), in any
\* DeviceState, ends with status 0 and with no sdInit, no block operation and
\* no DMA transfer.
NoOpAlwaysSucceedsUntouched ==
  (Ended /\ Op \in NoOpCodes) =>
     /\ h.status = 0
     /\ ~h.preInit /\ h.nInit = 0
     /\ NoBlockCalls /\ NoDma

\* C2 as the code has it: a no-op opcode never reads or writes a block and
\* never transfers by DMA; with the card ready on arrival it ends with status 0
\* and without any sdInit; with the card not ready the not-ready check calls
\* sdInit once and the status is 0 exactly when that call succeeded.
NoOpSucceedsWhenReady ==
  (h.frames = 1 /\ Op \in NoOpCodes) =>
     /\ NoBlockCalls /\ NoDma
     /\ h.nInit = 0
     /\ (h.readyAtArrival => ~h.preInit)
     /\ (Ended /\ h.readyAtArrival => h.status = 0)
     /\ (Ended /\ ~h.readyAtArrival =>
           h.preInit /\ h.status = (IF h.preInitOk THEN 0 ELSE 2))

\* a Ship frame full of 255s, card ready, has ended with status 0
NoOpSucceedsWhenReadyWitness ==
  /\ pc = "loop" /\ h.frames = 1
  /\ Op = 27 /\ cmdBuf[1] = 255 /\ cmdBuf[4] = 255
  /\ h.readyAtArrival /\ h.status = 0

\* C3: a read or write frame with start + count above the capacity ends with
\* status 2, and no readBlock/writeBlock, no card block operation and no DMA
\* transfer is made for it at any point of the command.
RangeErrorNoCalls ==
  (h.frames = 1 /\ Op \in {8, 10} /\ Start + Count > Capacity) =>
     /\ NoBlockCalls /\ NoDma
     /\ pc \in {"checkReady", "switch", "sendStatus", "loop"}
     /\ (Ended => h.status = 2)

\* start 2, count 2 against 3 blocks: rejected, nothing read
RangeErrorNoCallsWitness ==
  /\ pc = "loop" /\ h.frames = 1 /\ Op = 8
  /\ Start = MaxStart /\ Count = 2 /\ h.capChecked = MaxStart + 1
  /\ h.readyAtArrival /\ h.status = 2 /\ h.nBlk = 0

\* C4 as stated: with the card ready and every card call succeeding, a read
\* or write frame with start + count <= capacity ends with status 0, for
\* every count from 0 and every start from 0.
InRangeSucceeds ==
  (Ended /\ Op \in {8, 10} /\ h.readyAtArrival /\ h.allOk
     /\ Start + Count <= Capacity) =>
     h.status = 0

\* C5: for a range within the capacity and a card that succeeds on every call,
\* the k-th readBlock is for block start + k - 1 and is directly followed by
\* the k-th sendDma(512), count of each in all; the k-th readDma(512) is
\* directly followed by the k-th writeBlock, for block start + k - 1, count of
\* each in all.
BlocksInOrderInterleaved ==
  (h.frames = 1 /\ Op \in {8, 10} /\ h.allOk /\ h.capChecked >= 0
     /\ Start + Count <= Capacity) =>
     /\ h.nBlk <= Count
     /\ (h.nOps >= 1 => h.lastIdx = Start + h.nBlk - 1 /\ h.nOps = 1)
     /\ (pc \in {"cardOp", "blockReturn"} => block = Start + h.nBlk - 1)
     /\ (h.nSend + h.nRecv > 0 => h.lastDma = BLOCKSIZE)
     /\ (Ended => h.nBlk = Count)
     /\ (Op = 8 =>
           /\ h.nRecv = 0
           /\ h.sendAfterBlk
           /\ h.nSend = (IF pc \in {"cardOp", "blockReturn", "dma"}
                           THEN h.nBlk - 1 ELSE h.nBlk))
     /\ (Op = 10 =>
           /\ h.nSend = 0
           /\ h.blkAfterRecv
           /\ h.nRecv = (IF pc = "dmaReturn" THEN h.nBlk + 1 ELSE h.nBlk))

\* blocks 1 and 2 of 3 read and sent, status 0
BlocksInOrderInterleavedWitness ==
  /\ pc = "loop" /\ h.frames = 1 /\ Op = 8 /\ h.allOk
  /\ Start = 1 /\ Count = 2 /\ h.capChecked = MaxStart + 1
  /\ h.nBlk = 2 /\ h.nSend = 2 /\ h.lastIdx = 2 /\ h.status = 0

\* C6 as stated: when the card's block operation fails on every call, one
\* readBlock/writeBlock invokes it at most MAXTRIES_SD times.
RetryBoundFive ==
  (pc = "blockReturn" /\ ~h.opOk) => h.nOps <= MAXTRIES_SD

\* C7 as stated: when the card's block operation fails on every call, one
\* readBlock/writeBlock calls sdInit exactly once before it reports failure.
ReinitExactlyOnce ==
  (pc = "blockReturn" /\ ~h.opOk) => h.nReinit = 1 /\ ~blkResult

\* C7 as the code has it: when the card's block operation fails on every
\* call, one readBlock/writeBlock reports failure after calling sdInit at
\* least once and at most MAXTRIES_SD / 2 + 1 times: after the third failed
\* operation and after every later one, stopping at the first sdInit that
\* fails; so exactly once only when that first sdInit fails.
ReinitUntilFailure ==
  (pc = "blockReturn" /\ ~h.opOk) =>
     /\ ~blkResult
     /\ h.nReinit >= 1
     /\ h.nReinit <= MAXTRIES_SD \div 2 + 1
     /\ (h.nReinit < MAXTRIES_SD \div 2 + 1 => h.reinitFailed)
     /\ (h.reinitFailed => h.nOps = h.nReinit + MAXTRIES_SD - MAXTRIES_SD \div 2 - 1)

\* every block operation failed, three sdInit calls succeeded
ReinitUntilFailureWitness ==
  /\ pc = "blockReturn" /\ ~h.opOk /\ ~blkResult
  /\ h.nReinit = 3 /\ ~h.reinitFailed

\* C8 as stated: readBlock/writeBlock reports failure only when every block
\* operation it made failed or an sdInit it forced failed; whenever no sdInit
\* fails and some block operation succeeds it reports success.
TransientNeverObserved ==
  pc = "blockReturn" =>
     /\ (~blkResult => (~h.opOk \/ h.reinitFailed))
     /\ ((h.opOk /\ ~h.reinitFailed) => blkResult)

\* C9 as stated: Mode sense page 4 puts 24 bytes on the bus that begin with
\* 4, 22, the capacity shifted by 23, 15 and 7 bits, and 128 heads.
ModeSense4Page ==
  (h.frames = 1 /\ Op = 26 /\ cmdBuf[2] = 4 /\ h.nSend = 1) =>
     /\ Len(h.wire) = 24
     /\ h.wire[1] = 4 /\ h.wire[2] = 22
     /\ h.wire[3] = U8(Shr(Capacity, 23))
     /\ h.wire[4] = U8(Shr(Capacity, 15))
     /\ h.wire[5] = U8(Shr(Capacity, 7))
     /\ h.wire[6] = 128

\* C10: a first byte whose device ID bits are not ACSI_ID leaves the receiver
\* polling: nothing is stored in cmdBuf, the LED stays off, no card call, no
\* DMA and no status happen; and every frame that is received or dispatched
\* began with the ID bits ACSI_ID.
ForeignFrame(s) == ~Quiet(s) /\ Shr(s, 13) # ACSI_ID
OtherIdIgnored ==
  [][ /\ (pc = "waitCommand" /\ ForeignFrame(b')) =>
           /\ pc' = "waitCommand"
           /\ cmdBuf' = cmdBuf
           /\ led' = FALSE
           /\ h' = NoHistory
           /\ UNCHANGED <<dataBuf, sdVars, statusByte, cmds>>
      /\ (pc' \in {"recvBytes", "checkReady"} => h'.rxId = ACSI_ID)
    ]_vars

\* the poll has just seen a read command addressed to device 7
OtherIdIgnoredWitness ==
  /\ pc = "waitCommand" /\ b = Sample(7 * 32 + 8, 0, 0) /\ ForeignFrame(b)
  /\ ~led /\ h = NoHistory

\* C11: a frame that arrives with sdReady false makes loop() call sdInit
\* before anything else; when that call fails the command, whatever its opcode
\* and bytes, goes straight to sendStatus(2): no other sdInit, no readBlock or
\* writeBlock, no card block operation, no DMA transfer. A frame that arrives
\* with sdReady true never makes this call.
NotReadyInitFailsCommand ==
  h.frames = 1 =>
     /\ (pc = "checkReady" => ~h.preInit /\ h.nInit = 0 /\ NoBlockCalls /\ NoDma)
     /\ (h.readyAtArrival => ~h.preInit)
     /\ (~h.readyAtArrival /\ pc # "checkReady" => h.preInit)
     /\ (h.preInit /\ ~h.preInitOk =>
           /\ pc \in {"sendStatus", "loop"}
           /\ h.status = 2 /\ h.nStatus = 1
           /\ h.nInit = 0 /\ NoBlockCalls /\ NoDma
           /\ ~sdReady)

\* a Seek frame met a card that was not ready and could not be initialized
NotReadyInitFailsCommandWitness ==
  /\ pc = "loop" /\ h.frames = 1 /\ Op = 11
  /\ ~h.readyAtArrival /\ h.preInit /\ ~h.preInitOk /\ h.status = 2

\* C12 as stated: whenever readBlock or writeBlock returns false, sdReady is
\* false.
BlockFailureClearsReady ==
  (pc = "blockReturn" /\ ~blkResult) => ~sdReady

\* C12 as the code has it: when readBlock or writeBlock returns false, sdReady
\* is false exactly when the failure was a failed sdInit of the retry loop;
\* when the retries ran out with every sdInit succeeding sdReady is true, and
\* it is still so when the command has ended with status 2 and loop() waits
\* for the next frame.
BlockFailureReadyIffReinitOk ==
  /\ (pc = "blockReturn" /\ ~blkResult) =>
        /\ h.nReinit >= 1
        /\ sdReady = ~h.reinitFailed
  /\ (Ended /\ Op \in {8, 10} /\ h.nBlk >= 1 /\ h.status = 2) =>
        sdReady = ~h.reinitFailed

\* a write has failed for good after three sdInit calls that all succeeded
BlockFailureReadyIffReinitOkWitness ==
  /\ pc = "loop" /\ h.frames = 1 /\ Op = 10 /\ h.status = 2
  /\ h.nBlk = 1 /\ h.nReinit = 3 /\ ~h.reinitFailed /\ ~h.opOk /\ sdReady

\* C13: Test drive ready, Format drive, Verify track and Format track, with
\* sdReady true on arrival, call sdInit exactly once (and not from the
\* not-ready check), make no readBlock/writeBlock and no DMA transfer, and end
\* with status 0 exactly when that sdInit succeeded; sdReady is then the
\* result of that call.
InitClassForcesInit ==
  (h.frames = 1 /\ Op \in InitCodes /\ h.readyAtArrival) =>
     /\ ~h.preInit /\ NoBlockCalls /\ NoDma
     /\ (pc \in {"checkReady", "switch"} => h.nInit = 0)
     /\ (Ended =>
           /\ h.nInit = 1
           /\ h.status = (IF h.initOk THEN 0 ELSE 2)
           /\ sdReady = h.initOk)

\* Verify track on a ready card whose re-initialization failed: status 2 and
\* the card is no longer ready
InitClassForcesInitWitness ==
  /\ pc = "loop" /\ h.frames = 1 /\ Op = 5 /\ h.readyAtArrival
  /\ h.nInit = 1 /\ ~h.initOk /\ h.status = 2 /\ ~sdReady

\* the switch of loop() was entered for the current frame
Dispatched == h.frames = 1 /\ h.capChecked >= 0

\* C14: a dispatched Inquiry with length byte L makes exactly one sendDma, of
\* L bytes; byte j of it is byte j of inquiry_data for j below the length of
\* inquiry_data and 0 from there on; no readBlock/writeBlock, no card block
\* operation and no readDma happen, and the command ends with status 0.
InquirySendsRecord ==
  (Dispatched /\ Op = 18) =>
     /\ NoBlockCalls /\ h.nInit = 0 /\ h.nRecv = 0
     /\ (pc = "switch" => h.nSend = 0)
     /\ h.nSend <= 1
     /\ (h.nSend = 1 =>
           /\ h.lastDma = Count
           /\ Len(h.wire) = Count
           /\ \A j \in 1..Count :
                h.wire[j] = (IF j <= Len(inquiry_data) THEN inquiry_data[j] ELSE 0))
     /\ (Ended => h.nSend = 1 /\ h.status = 0)

\* an Inquiry of 40 bytes has ended: the 36 bytes of the record, then zeros
InquirySendsRecordWitness ==
  /\ pc = "loop" /\ h.frames = 1 /\ Op = 18 /\ Count = 40
  /\ h.nSend = 1 /\ h.status = 0
  /\ SubSeq(h.wire, 1, 36) = inquiry_data
  /\ h.wire[9] = 82 /\ h.wire[36] = 48 /\ h.wire[37] = 0 /\ h.wire[40] = 0

\* C15: when the k-th readBlock of a read command returns false, k-1
\* sendDma(512) calls have been made; when the k-th writeBlock of a write
\* command returns false, k readDma(512) calls have been made, the k-th right
\* before it. In both cases the next thing the program does is sendStatus(2),
\* and from there to the return of loop() no readBlock, writeBlock, sendDma or
\* readDma is made.
BlockFailureAborts ==
  [][ /\ (pc = "blockReturn" /\ ~blkResult) =>
           /\ Op \in {8, 10}
           /\ h.nBlk >= 1 /\ h.nBlk <= Count
           /\ block = Start + h.nBlk - 1
           /\ h.last = "blk"
           /\ h.nSend = (IF Op = 8 THEN h.nBlk - 1 ELSE 0)
           /\ h.nRecv = (IF Op = 10 THEN h.nBlk ELSE 0)
           /\ (h.nSend + h.nRecv > 0 => h.lastDma = BLOCKSIZE)
           /\ (Op = 8 => h.sendAfterBlk)
           /\ (Op = 10 => h.blkAfterRecv)
           /\ pc' = "sendStatus" /\ statusByte' = 2
           /\ h' = LogStatus(h, 2)
      /\ (pc = "sendStatus" => pc' = "loop" /\ h' = h)
    ]_vars

\* the second writeBlock of a write has failed: two blocks received, status 2
BlockFailureAbortsWitness ==
  /\ pc = "sendStatus" /\ h.frames = 1 /\ Op = 10 /\ Count = 2
  /\ ~blkResult /\ h.nBlk = 2 /\ h.nRecv = 2 /\ h.nSend = 0
  /\ h.last = "blk" /\ h.status = 2

\* C16: interrupts are disabled at every point of waitCommand from its poll
\* to the sixth byte, of the byte loops of sendDma and readDma, and of the
\* handshake of sendStatus; they are enabled at every other point of loop():
\* when the not-ready check or a case calls sdInit, when readBlock/writeBlock
\* runs a card block operation, its retry delay or its sdInit, and between
\* the calls.
InterruptsOffOnBusOnly ==
  /\ (pc \in {"waitCommand", "recvBytes", "dma", "sendStatus"} => ~intr)
  /\ (pc \in {"loop", "checkReady", "switch", "forBlocks", "cardOp", "reinit",
               "blockReturn", "dmaReturn"} => intr)
  /\ pc \in {"waitCommand", "recvBytes", "dma", "sendStatus", "loop",
              "checkReady", "switch", "forBlocks", "cardOp", "reinit",
              "blockReturn", "dmaReturn"}

\* the retry loop of the second writeBlock is about to call sdInit, after two
\* readDma calls and with interrupts enabled
InterruptsOffOnBusOnlyWitness ==
  /\ pc = "reinit" /\ Op = 10 /\ h.nRecv = 2 /\ h.nBlk = 2 /\ intr

\* C17: every card block operation is invoked with the watchdog fed since
\* the card block operation before it: the read and write loops feed it at
\* the start of every iteration that handles a block, and the retry loops
\* feed it after every failed operation that is followed by another one.
\* In waitCommand every poll that samples CS or A1 high (no first byte of a
\* command on the bus) feeds it.
WatchdogFedBetweenOps ==
  [][ /\ (pc = "cardOp" => wdFed)
      /\ (pc = "forBlocks" /\ blocks # 0 => wdFed')
      /\ (pc = "cardOp" /\ pc' \in {"cardOp", "reinit"} => wdFed')
      /\ (pc = "waitCommand" /\ pc' = "waitCommand" /\ Quiet(b') => wdFed')
    ]_vars

\* the second block of a read is about to be retried after a failed operation
WatchdogFedBetweenOpsWitness ==
  /\ pc = "cardOp" /\ Op = 8 /\ h.nBlk = 2 /\ h.nOps = 1 /\ ~h.lastOpOk
  /\ h.nSend = 1 /\ wdFed

\* C18: under FairSpec every frame handed to loop()'s dispatcher is followed
\* by exactly one sendStatus and the return of loop(), whatever the opcode,
\* the frame bytes and the results of the card calls; and loop(), once
\* returned, is back in the poll of waitCommand.
CommandTerminates ==
  /\ ((pc = "checkReady") ~> (pc = "loop" /\ h.frames = 1 /\ h.nStatus = 1))
  /\ ((pc = "loop") ~> (pc = "waitCommand"))

\* a read has returned after the longest retry sequence: six failed block
\* operations and three successful sdInit calls
CommandTerminatesWitness ==
  /\ pc = "loop" /\ h.frames = 1 /\ h.nStatus = 1 /\ Op = 8
  /\ h.nOps = MAXTRIES_SD + 1 /\ h.nReinit = 3 /\ ~h.opOk

\* C19: a dispatched Mode sense whose sub-page byte cmdBuf[2] is neither 0 nor
\* 4 goes from the switch straight to sendStatus(0): no sendDma or readDma,
\* no sdInit, readBlock or writeBlock, and dataBuf is left as it was.
ModeSenseOtherPageSucceeds ==
  [][ (pc = "switch" /\ cmdBuf[0] = 26 /\ cmdBuf[2] \notin {0, 4}) =>
         /\ NoBlockCalls /\ NoDma /\ h.nInit = 0
         /\ pc' = "sendStatus" /\ statusByte' = 0
         /\ h' = LogStatus(h, 0)
         /\ UNCHANGED <<dataBuf, sdVars>>
    ]_vars

\* Mode sense for page 63 has ended with status 0 and nothing sent
ModeSenseOtherPageSucceedsWitness ==
  /\ pc = "loop" /\ h.frames = 1 /\ Op = 26 /\ cmdBuf[2] = 63
  /\ h.status = 0 /\ h.nStatus = 1 /\ h.nSend = 0 /\ NoBlockCalls

\* C20: every sendDma(512) of a read command is made for the block whose
\* card read was the last card call of readBlock and succeeded, and puts on
\* the bus the 512 bytes that read stored in dataBuf; every card write of a
\* write command, the retries after an sdInit included, is passed the 512
\* bytes the host sent in the readDma of the same iteration. No step between
\* the card read and the end of its sendDma, or between the readDma and the
\* last card write, changes dataBuf.
DataIntegrity ==
  [][ /\ (pc = "dma" /\ dmaDir = "send" /\ cmdBuf[0] = 8) =>
           /\ dmaCount = BLOCKSIZE
           /\ block = Start + h.nBlk - 1
           /\ h.lastOpOk /\ h.lastIdx = block /\ h.last = "blk"
           /\ h'.wire = Prefix(Fill(CardByte(block)), BLOCKSIZE)
      /\ (pc = "cardOp" /\ cmdBuf[0] = 10) =>
           /\ block = Start + h.nBlk - 1
           /\ h.nRecv = h.nBlk /\ h.lastDma = BLOCKSIZE
           /\ h'.lastIdx = block
           /\ h'.wrote = h.rx
      /\ (cmdBuf[0] = 8 /\ pc \in {"blockReturn", "dma"} => dataBuf' = dataBuf)
      /\ (cmdBuf[0] = 10 /\ pc \in {"dmaReturn", "cardOp", "reinit"} =>
            dataBuf' = dataBuf)
    ]_vars

\* the second block of a write has been written at the fourth attempt, after
\* an sdInit, with the bytes the host sent for it
DataIntegrityWitness ==
  /\ pc = "blockReturn" /\ Op = 10 /\ h.nBlk = 2 /\ h.nRecv = 2
  /\ h.nOps = 4 /\ h.nReinit = 1 /\ h.lastOpOk /\ blkResult
  /\ h.rx = [j \in 1..BLOCKSIZE |-> 165] /\ h.wrote = h.rx

====
